---- MODULE Spec2Model ----
(***************************************************************************)
(* Model of max/pipelines/pipeline.py: TextGenerationPipeline.next_token,  *)
(* prepare_batch, calculate_num_steps, upper_bounded_default and release.  *)
(* The model, the KV cache manager, the sampler and the grammar matcher    *)
(* are collaborators: their calls are recorded in `calls`, their results   *)
(* are chosen nondeterministically.                                        *)
(***************************************************************************)
EXTENDS Integers, Sequences, FiniteSets, TLC

\* ------------------------------------------------------------------ bounds
MaxSeqLen == 3          \* value of pipeline_model.calculate_max_seq_len(config)
MaxSteps == 3           \* largest num_steps a caller passes to next_token
MaxCur == 4             \* largest current_length of a context handed in
MaxInvocations == 2     \* most calls of next_token a caller makes in a row
MaxEos == 3             \* largest token id of an eos_token_id

\* --------------------------------------------------------------- constants
VocabSize == 2          \* self.vocab_size = len(tokenizer)
WordBits == 32          \* bits = 2 ** torch.arange(32)
OnesWord == 1           \* torch.ones(..., dtype=torch.int32): every word is 1

Reqs == {1, 2}          \* request ids; cache_seq_id of request r is r
Vocab == 0 .. (VocabSize - 1)
Eos == {1}              \* self._eos_token_id
NoMax == -1             \* context.max_length is None
NoMatcher == -1         \* context.matcher is None
Schemas == {"none", "good", "bad"}  \* json_schema: absent, compiles, fails to compile

\* ---------------------------------------------------------------- state
VARIABLES
  enable_structured_output, \* pipeline_config.enable_structured_output
  max_seq_len,   \* pipeline_model.calculate_max_seq_len(pipeline_config)
  ctx,           \* the request contexts, by request id
  kv,            \* seq ids the cache manager contains
  pc,            \* position of the single control flow
  outcome,       \* how the last invocation ended
  invocations,   \* next_token invocations started
  released,      \* contexts the caller released
  batch,         \* context_batch: request ids in batch order
  requested,     \* num_steps as passed by the caller
  num_steps,     \* the running / effective step count
  k,             \* index of the context prepare_batch is admitting
  untrimmed,     \* seq_ids_and_untrimmed_lengths
  bitmask,       \* the bitmask variable of prepare_batch / next_token
  i,             \* loop index of the multistep loop
  generated,     \* generated_tokens, one row per batch index
  batch_index,   \* row of the response assembly
  step,          \* step of the response assembly
  res,           \* the response list
  calls,         \* collaborator calls observed so far
  before,        \* ctx at the start of the invocation
  stopped,       \* requests that hit EOS / overrun in this invocation
  applied,       \* tokens given to context.update in this invocation
  handed,        \* mask handed to the sampler, per executed step
  log_probs_implemented,   \* the model overrides compute_log_probabilities
  max_invocations,         \* calls of next_token the caller makes
  huggingface_config,      \* eos_token_id of pipeline_config.huggingface_config
  eos_token_id,            \* eos_token_id passed to __init__
  self_eos_token_id,       \* self._eos_token_id
  batch_log_probabilities, \* batch_log_probabilities of next_token
  prompts,       \* lengths of the values of seq_ids_and_prompts
  curr_step_inputs,        \* curr_step_inputs of next_token
  batched_kv_cache_inputs, \* increments applied to the fetched cache inputs
  committed,     \* seq_ids_and_new_tokens as given to kv_manager.step
  fresh          \* grammar state a matcher stepped after every sample would have

vars == <<enable_structured_output, max_seq_len, ctx, kv, pc, outcome, invocations,
          released, batch, requested, num_steps, k, untrimmed, bitmask, i,
          generated, batch_index, step, res, calls, before, stopped, applied,
          handed, fresh, log_probs_implemented, max_invocations,
          batch_log_probabilities,
          prompts, curr_step_inputs, batched_kv_cache_inputs, committed,
          huggingface_config, eos_token_id, self_eos_token_id>>

\* handed / bitmask value when the sampler is called without a mask
NoMask == [kind |-> "none", rows |-> <<>>]

\* curr_step_inputs before prepare_initial_token_inputs
NoInputs == [from |-> "none", tokens |-> <<>>]

\* log_probs of a response without log probabilities; the None entry of
\* batch_log_probabilities
NoLogProbs == <<>>

\* --------------------------------------------------------- pure functions

\* a bound that caps the default instead of rejecting it
upper_bounded_cap(upper_bound, default) ==
  IF default = NoMax \/ default > upper_bound
  THEN [raised |-> FALSE, value |-> upper_bound]
  ELSE [raised |-> FALSE, value |-> default]

\* upper_bounded_default(upper_bound, default)
upper_bounded_default(upper_bound, default) ==
  IF default = NoMax THEN [raised |-> FALSE, value |-> upper_bound]
  ELSE IF default > upper_bound THEN [raised |-> TRUE, value |-> 0]
  ELSE [raised |-> FALSE, value |-> default]

\* num_available_steps of calculate_num_steps
num_available_steps(c) == max_seq_len - (c.current_length - c.active_length)

\* a budget that admits a context with nothing available
calculate_num_steps_lt(n, c) ==
  IF num_available_steps(c) < 0 THEN [raised |-> TRUE, value |-> 0]
  ELSE [raised |-> FALSE,
        value |-> IF num_available_steps(c) > n THEN n
                  ELSE num_available_steps(c)]

\* a budget that forgets the steps asked for
calculate_num_steps_available(n, c) ==
  IF num_available_steps(c) <= 0 THEN [raised |-> TRUE, value |-> 0]
  ELSE [raised |-> FALSE, value |-> num_available_steps(c)]

\* calculate_num_steps(num_steps, context)
calculate_num_steps(n, c) ==
  IF num_available_steps(c) <= 0 THEN [raised |-> TRUE, value |-> 0]
  ELSE [raised |-> FALSE,
        value |-> IF num_available_steps(c) > n THEN n
                  ELSE num_available_steps(c)]

\* ---------------------------------------------------------- grammar matcher
\* A two-state grammar: state 0 admits token 0 only, state 1 admits token 1.
Admissible(g) == IF g = 0 THEN {0} ELSE {1}

\* matcher.accept_token
Accept(g, t) == IF g = 0 /\ t = 0 THEN 1 ELSE g

\* ---------------------------------------------------------------- bitmask
Pow2(n) == IF n <= 0 THEN 1 ELSE 2 ^ n

\* xgr.get_bitmask_shape(batch, vocab_size)[1]
NumWords == (VocabSize + WordBits - 1) \div WordBits

RECURSIVE SumPow(_)
SumPow(S) == IF S = {} THEN 0
             ELSE LET t == CHOOSE x \in S : TRUE
                  IN Pow2(t) + SumPow(S \ {t})

\* matcher.fill_next_token_bitmask(bitmask, index): the packed row of state g
PackedRow(g) ==
  [w \in 1 .. NumWords |->
     SumPow({t % WordBits :
               t \in {u \in Admissible(g) \cap Vocab : u \div WordBits = w - 1}})]

\* torch.ones(shape, dtype=torch.int32): one row
OnesRow == [w \in 1 .. NumWords |-> OnesWord]

\* (bitmask.unsqueeze(-1) & bits) != 0, reshaped and cut to vocab_size,
\* applied to a row of packed int32 words
UnpackRow(row) ==
  {t \in Vocab : (row[(t \div WordBits) + 1] \div Pow2(t % WordBits)) % 2 = 1}

\* the same expression applied to a row that already holds booleans: every
\* boolean b becomes the word b, of which only bit 0 can be set
ReUnpackRow(S) ==
  {t \in Vocab : t % WordBits = 0 /\ (t \div WordBits) \in S}

\* ------------------------------------------------------------------- Init
\* contexts a caller may hand in: decoding (one active token) or prefill (all
\* tokens active)
Contexts ==
  {c \in [current_length : 1 .. MaxCur,
          active_length : 1 .. MaxCur,
          max_length : {NoMax, 2, MaxSeqLen + 1},
          json_schema : Schemas,
          matcher : {NoMatcher},
          log_probabilities : {0, 1}] :
     c.active_length \in {1, c.current_length}}

\* contexts without a schema and without a requested max length
PlainContexts ==
  {c \in Contexts : c.json_schema = "none" /\ c.max_length = NoMax}

\* "eos_token_id" in huggingface_config: absent
NoEos == [kind |-> "absent", value |-> {}]

\* self._eos_token_id as __init__ sets it from the eos_token_id entry of the
\* huggingface config and the eos_token_id it is given, lines 365-385. The
\* entry is absent, an int (value holds it alone), a list (value holds its
\* elements) or of another type.
ExpandEos(config, provided) ==
  IF config.kind = "int" THEN config.value
  ELSE IF config.kind = "list"
  THEN IF provided \in config.value THEN config.value ELSE {provided}
  ELSE {provided}

\* a pipeline whose huggingface config has no eos_token_id, built with the
\* only token of Eos
InitEos ==
  /\ huggingface_config = NoEos
  /\ eos_token_id \in Eos
  /\ self_eos_token_id = ExpandEos(huggingface_config, eos_token_id)

\* what every specification starts with besides its contexts and configuration
InitRest ==
  /\ kv = {}
  /\ outcome = "none"
  /\ invocations = 0
  /\ released = {}
  /\ k = 1
  /\ untrimmed = <<>>
  /\ bitmask = NoMask
  /\ i = 0
  /\ generated = <<>>
  /\ batch_index = 1
  /\ step = 0
  /\ res = <<>>
  /\ calls = <<>>
  /\ before = ctx
  /\ stopped = {}
  /\ applied = [r \in Reqs |-> <<>>]
  /\ handed = <<>>
  /\ fresh = [r \in Reqs |-> NoMatcher]
  /\ batch_log_probabilities = <<>>
  /\ prompts = [r \in Reqs |-> 0]
  /\ curr_step_inputs = NoInputs
  /\ batched_kv_cache_inputs = 0
  /\ committed = [r \in Reqs |-> <<>>]

\* one call of next_token on a pipeline with or without structured output:
\* request 1 is any context, request 2 is decoding, without schema, log
\* probabilities and max length
Init ==
  /\ enable_structured_output \in BOOLEAN
  /\ max_seq_len = MaxSeqLen
  /\ log_probs_implemented = TRUE
  /\ max_invocations = 1
  /\ ctx \in {f \in [Reqs -> Contexts] :
                /\ f[2] \in PlainContexts
                /\ f[2].active_length = 1
                /\ \A r \in Reqs : f[r].log_probabilities = 0}
  /\ pc = "idle"
  /\ batch = <<>>
  /\ requested = 0
  /\ num_steps = 0
  /\ InitEos
  /\ InitRest

\* ---------------------------------------------------------------- actions
\* request 2 alone is a case of request 1 alone
Batches == {<<1>>, <<1, 2>>, <<2, 1>>}

Rows == 1 .. Len(batch)

\* an exception leaves next_token
Raise(kind) == pc' = "idle" /\ outcome' = kind

\* next_token, lines 570-585, and the head of prepare_batch, lines 451-467
NextToken(b, n) ==
  /\ pc = "idle"
  /\ invocations < max_invocations
  /\ invocations' = invocations + 1
  /\ pc' = "admit"
  /\ outcome' = "running"
  /\ batch' = b
  /\ requested' = n
  /\ num_steps' = n
  /\ k' = 1
  /\ untrimmed' = [r \in Reqs |-> 0]
  /\ bitmask' = IF enable_structured_output
                THEN [kind |-> "packed", rows |-> [j \in 1 .. Len(b) |-> OnesRow]]
                ELSE NoMask
  /\ i' = 0
  /\ generated' = [j \in 1 .. Len(b) |-> <<>>]
  /\ batch_index' = 1
  /\ step' = 0
  /\ res' = <<>>
  /\ before' = ctx
  /\ stopped' = {}
  /\ applied' = [r \in Reqs |-> <<>>]
  /\ handed' = <<>>
  /\ fresh' = [r \in Reqs |-> NoMatcher]
  /\ batch_log_probabilities' = <<>>
  /\ prompts' = [r \in Reqs |-> 0]
  /\ curr_step_inputs' = NoInputs
  /\ batched_kv_cache_inputs' = 0
  /\ committed' = [r \in Reqs |-> <<>>]
  /\ calls' = Append(calls, <<"next_token", 0, n>>)
  /\ UNCHANGED <<huggingface_config, eos_token_id, self_eos_token_id,
                 enable_structured_output, max_seq_len, log_probs_implemented,
                 max_invocations, ctx, kv, released>>

\* a matcher that is built again for a request that has one
NeedsMatcherAlways(c) == c.json_schema # "none"

\* "if context.json_schema and context.matcher is None", line 470
NeedsMatcher(c) == c.json_schema # "none" /\ c.matcher = NoMatcher

\* a pipeline that accepts a schema without structured output
ConfigurationErrorNever(c) == FALSE

\* "if not self._pipeline_config.enable_structured_output: raise ValueError",
\* lines 470-473
ConfigurationError(c) == NeedsMatcher(c) /\ ~enable_structured_output

\* a failed compilation that leaves the schema on the context
InitMatcherKeeps(c) ==
  IF NeedsMatcher(c)
  THEN IF c.json_schema = "good" THEN [c EXCEPT !.matcher = 0] ELSE c
  ELSE c

\* the context after "Initialize a matcher if needed", lines 470-489
InitMatcher(c) ==
  IF NeedsMatcher(c)
  THEN IF c.json_schema = "good"
       THEN [c EXCEPT !.matcher = 0]
       ELSE [c EXCEPT !.json_schema = "none"]
  ELSE c

\* an admission that never claims a slot
NeedsClaimNever(r) == FALSE

\* a slot that is claimed whether or not the manager holds it
NeedsClaimAlways(r) == TRUE

\* "if not kv_manager.contains(context.cache_seq_id)", lines 492-494
NeedsClaim(r) == r \notin kv

\* one iteration of the admission loop of prepare_batch, lines 468-513
Admit ==
  /\ pc = "admit"
  /\ LET r == batch[k]
         c == ctx[r]
         c1 == InitMatcher(c)
         n == calculate_num_steps(num_steps, c1)
     IN IF ConfigurationError(c)
        THEN /\ Raise("ConfigurationError")
             /\ UNCHANGED <<ctx, kv, calls, num_steps, k, untrimmed, bitmask,
                            fresh, prompts>>
        ELSE /\ ctx' = [ctx EXCEPT ![r] = c1]
             /\ kv' = IF NeedsClaim(r) THEN kv \cup {r} ELSE kv
             /\ calls' = calls
                   \o (IF NeedsMatcher(c)
                       THEN <<<<"compile_json_schema", r, 0>>>> ELSE <<>>)
                   \o (IF NeedsClaim(r)
                       THEN <<<<"external_claim", r, 0>>>> ELSE <<>>)
             /\ prompts' = [prompts EXCEPT ![r] = c1.active_length]
             /\ untrimmed' = [untrimmed EXCEPT ![r] = c1.active_length]
             /\ IF n.raised
                THEN /\ Raise("CapacityError")
                     /\ UNCHANGED <<num_steps, k, bitmask, fresh>>
                ELSE /\ num_steps' = n.value
                     /\ bitmask' =
                          IF enable_structured_output /\ c1.matcher # NoMatcher
                          THEN [bitmask EXCEPT !.rows[k] = PackedRow(c1.matcher)]
                          ELSE bitmask
                     /\ fresh' = [fresh EXCEPT ![r] = c1.matcher]
                     /\ k' = k + 1
                     /\ pc' = IF k = Len(batch) THEN "fetch" ELSE "admit"
                     /\ UNCHANGED outcome
  /\ UNCHANGED <<huggingface_config, eos_token_id, self_eos_token_id,
                 enable_structured_output, max_seq_len, log_probs_implemented,
                 max_invocations, invocations, released, batch,
                 requested, i, generated, batch_index, step, res, before,
                 stopped, applied, handed, batch_log_probabilities,
                 curr_step_inputs, batched_kv_cache_inputs, committed>>

\* lengths fetch may leave of a prompt of length L
Trimmed(L) == {L} \cup (IF L > 1 THEN {1} ELSE {})

\* context.bump_token_indices(start_idx)
bump_token_indices(c, start_idx) ==
  [c EXCEPT !.active_length = c.active_length - start_idx]

\* a trim loop that bumps without a shortened prompt
NeedsBumpAlways(bump_length) == bump_length >= 0

\* "if bump_length > 0", line 531
NeedsBump(bump_length) == bump_length > 0

\* fetch, the trim loop and prepare_initial_token_inputs, lines 515-541,
\* and the allocation before the loop, lines 587-597
Fetch ==
  /\ pc = "fetch"
  /\ \E T \in [Reqs -> 0 .. MaxCur] :
       /\ \A r \in Reqs :
            IF \E j \in Rows : batch[j] = r
            THEN T[r] \in Trimmed(untrimmed[r])
            ELSE T[r] = 0
       /\ prompts' = T
       /\ ctx' = [r \in Reqs |->
                    IF (\E j \in Rows : batch[j] = r)
                       /\ NeedsBump(untrimmed[r] - T[r])
                    THEN bump_token_indices(ctx[r], untrimmed[r] - T[r])
                    ELSE ctx[r]]
       /\ calls' = calls \o <<<<"fetch", 0, num_steps>>>>
                   \o SelectSeq([j \in 1 .. Len(batch) |->
                                   <<"bump_token_indices", batch[j],
                                     untrimmed[batch[j]] - T[batch[j]]>>],
                                LAMBDA e : NeedsBump(e[3]))
  /\ curr_step_inputs' = [from |-> "prepare_initial_token_inputs",
                          tokens |-> <<>>]
  /\ pc' = IF num_steps > 0 THEN "loop" ELSE "commit"
  /\ UNCHANGED <<huggingface_config, eos_token_id, self_eos_token_id,
                 enable_structured_output, max_seq_len, log_probs_implemented,
                 max_invocations, kv, outcome, invocations, released,
                 batch, requested, num_steps, k, untrimmed, bitmask, i,
                 generated, batch_index, step, res, before, stopped, applied,
                 handed, fresh, batch_log_probabilities,
                 batched_kv_cache_inputs, committed>>

\* what the sampler may return for row j under mask m
Sampled(m, j) ==
  IF m.kind = "none" \/ m.rows[j] = {} THEN Vocab ELSE m.rows[j]

\* the mask a matcher that was advanced by every sampled token would fill
MatcherRows ==
  [j \in Rows |-> IF fresh[batch[j]] = NoMatcher THEN Vocab
                  ELSE Admissible(fresh[batch[j]]) \cap Vocab]

\* a loop that never takes the early exit of its last iteration
LastIterationNever(j, n) == j = n

\* "if i == num_steps - 1", line 656
LastIteration(j, n) == j = n - 1

\* a loop that commits to the cache manager in every iteration
LoopTailCommits(j) == << <<"step", 0, j>>,
                         <<"increment_cache_lengths", 0, j>>,
                         <<"prepare_next_token_inputs", 0, j>> >>

\* the calls that prepare the next step, lines 659-671
LoopTail(j) == << <<"increment_cache_lengths", 0, j>>,
                  <<"prepare_next_token_inputs", 0, j>> >>

\* "compute_log_probabilities = any(batch_top_n)", lines 576-577
compute_log_probabilities ==
  \E j \in Rows : before[batch[j]].log_probabilities > 0

\* what the model's compute_log_probabilities does at step j, lines 641-647:
\* the base class raises NotImplementedError, lines 292-319
LogProbabilities(j) ==
  IF log_probs_implemented
  THEN [raised |-> "none",
        value |-> [r \in Rows |->
                     IF before[batch[r]].log_probabilities > 0
                     THEN <<j, r>> ELSE NoLogProbs]]
  ELSE [raised |-> "NotImplementedError", value |-> NoLogProbs]

\* a loop that lets every exception of the model pass
CatchesNothing(exception) == FALSE

\* "except NotImplementedError", line 649
Catches(exception) == exception = "NotImplementedError"

\* inputs that are not renewed after a step
NextInputsStale(new_tokens, inputs) == inputs

\* prepare_next_token_inputs(new_tokens, curr_step_inputs), lines 669-671
NextInputs(new_tokens, inputs) ==
  [from |-> "prepare_next_token_inputs", tokens |-> new_tokens]

\* one iteration of the multistep loop, lines 598-672. At step 0 the bitmask
\* holds the packed int32 words of prepare_batch. It is overwritten with the
\* unpacked boolean tensor, so from step 1 on the unpacking expression is
\* applied to that tensor: either the tensor type rejects the expression and
\* the invocation ends with the exception, or the booleans are unpacked once
\* more as if they were words. The matcher is not asked for a new mask.
Step ==
  /\ pc = "loop"
  /\ \E logits \in BOOLEAN, unsqueeze \in BOOLEAN :
       LET executed == calls \o <<<<"execute", 0, i>>>>
           log_probs == LogProbabilities(i)
           mask == IF bitmask.kind = "none" THEN bitmask
                   ELSE [kind |-> "bool",
                         rows |-> [j \in Rows |->
                                     IF bitmask.kind = "packed"
                                     THEN UnpackRow(bitmask.rows[j])
                                     ELSE ReUnpackRow(bitmask.rows[j])]]
       IN IF ~logits
          THEN /\ Raise("ModelContractViolation")
               /\ calls' = executed
               /\ UNCHANGED <<bitmask, i, generated, handed, fresh,
                              batch_log_probabilities, curr_step_inputs,
                              batched_kv_cache_inputs>>
          ELSE IF bitmask.kind = "bool" /\ ~unsqueeze
          THEN /\ Raise("BitmaskError")
               /\ calls' = executed
               /\ UNCHANGED <<bitmask, i, generated, handed, fresh,
                              batch_log_probabilities, curr_step_inputs,
                              batched_kv_cache_inputs>>
          ELSE IF /\ compute_log_probabilities
                  /\ log_probs.raised # "none"
                  /\ ~Catches(log_probs.raised)
          THEN /\ Raise(log_probs.raised)
               /\ calls' = executed \o <<<<"sample", 0, i>>>>
               /\ UNCHANGED <<bitmask, i, generated, handed, fresh,
                              batch_log_probabilities, curr_step_inputs,
                              batched_kv_cache_inputs>>
          ELSE \E new_tokens \in [Rows -> Vocab] :
                 /\ \A j \in Rows : new_tokens[j] \in Sampled(mask, j)
                 /\ bitmask' = mask
                 /\ handed' = Append(handed,
                                [mask |-> mask,
                                 matcher_rows |-> MatcherRows,
                                 inputs |-> curr_step_inputs,
                                 kv_inputs |-> batched_kv_cache_inputs])
                 /\ generated' = [j \in Rows |->
                                    Append(generated[j], new_tokens[j])]
                 /\ fresh' = [r \in Reqs |->
                                IF fresh[r] = NoMatcher THEN fresh[r]
                                ELSE Accept(fresh[r],
                                       new_tokens[CHOOSE j \in Rows : batch[j] = r])]
                 /\ batch_log_probabilities' =
                      IF compute_log_probabilities
                      THEN Append(batch_log_probabilities, log_probs.value)
                      ELSE batch_log_probabilities
                 /\ IF LastIteration(i, num_steps)
                    THEN /\ pc' = "commit"
                         /\ calls' = executed \o <<<<"sample", 0, i>>>>
                         /\ i' = i
                         /\ UNCHANGED <<curr_step_inputs,
                                        batched_kv_cache_inputs>>
                    ELSE /\ pc' = IF i + 1 < num_steps THEN "loop" ELSE "commit"
                         /\ calls' = executed \o <<<<"sample", 0, i>>>>
                                        \o LoopTail(i)
                         /\ i' = i + 1
                         /\ batched_kv_cache_inputs' =
                              batched_kv_cache_inputs + 1
                         /\ curr_step_inputs' =
                              NextInputs(new_tokens, curr_step_inputs)
                 /\ UNCHANGED outcome
  /\ UNCHANGED <<huggingface_config, eos_token_id, self_eos_token_id,
                 enable_structured_output, max_seq_len, log_probs_implemented,
                 max_invocations, ctx, kv, invocations, released,
                 batch, requested, num_steps, k, untrimmed, batch_index, step,
                 res, before, stopped, applied, prompts, committed>>

\* the value next_token returns
Return == pc' = "idle" /\ outcome' = "returned"

\* a commit that is skipped when no step was executed
CommitCallsIfSteps(n) == IF n > 0 THEN << <<"step", 0, 0>> >> ELSE << >>

\* kv_manager.step(seq_ids_and_new_tokens), lines 680-686
CommitCalls(n) == << <<"step", 0, 0>> >>

\* "seq_ids_and_new_tokens = {ctx.cache_seq_id: generated_tokens_host[i] ...}",
\* lines 682-685
seq_ids_and_new_tokens ==
  [r \in Reqs |-> IF \E j \in Rows : batch[j] = r
                  THEN generated[CHOOSE j \in Rows : batch[j] = r]
                  ELSE <<>>]

\* the copy to the host, kv_manager.step and the allocation of the response
\* list, lines 674-692
Commit ==
  /\ pc = "commit"
  /\ committed' = seq_ids_and_new_tokens
  /\ calls' = calls \o CommitCalls(num_steps)
  /\ res' = [s \in 1 .. num_steps |-> <<>>]
  /\ batch_index' = 1
  /\ step' = 0
  /\ IF num_steps > 0 THEN pc' = "respond" /\ UNCHANGED outcome ELSE Return
  /\ UNCHANGED <<huggingface_config, eos_token_id, self_eos_token_id,
                 enable_structured_output, max_seq_len, log_probs_implemented,
                 max_invocations, ctx, kv, invocations, released,
                 batch, requested, num_steps, k, untrimmed, bitmask, i,
                 generated, before, stopped, applied, handed, fresh,
                 batch_log_probabilities, prompts, curr_step_inputs,
                 batched_kv_cache_inputs>>

\* context.update(new_token)
update(c, new_token) ==
  [c EXCEPT !.current_length = c.current_length + 1,
            !.active_length = 1,
            !.matcher = IF c.matcher = NoMatcher THEN NoMatcher
                        ELSE Accept(c.matcher, new_token)]

\* the for loop moves to the next row, or next_token returns, lines 692, 735
NextRow ==
  /\ step' = 0
  /\ batch_index' = batch_index + 1
  /\ IF batch_index = Len(batch) THEN Return
     ELSE pc' = "respond" /\ UNCHANGED outcome

\* a stop test that already stops at the max length
StopConditionAtLimit(next_token, current_length, max_length) ==
  next_token \in Eos \/ current_length >= max_length

\* a stop test that forgets the length
StopConditionEosOnly(next_token, current_length, max_length) ==
  next_token \in Eos

\* the stop test of the response assembly, lines 716-719
StopCondition(next_token, current_length, max_length) ==
  next_token \in Eos \/ current_length > max_length

\* a stop that skips the token and goes on with the row
Continue ==
  IF step + 1 < num_steps
  THEN step' = step + 1 /\ UNCHANGED <<pc, outcome, batch_index>>
  ELSE NextRow

\* "step += 1; break", lines 720-721
Break == NextRow

\* log_probs of the TextResponse of row j at step s, lines 724-728
TextResponseLogProbs(s, j) ==
  IF compute_log_probabilities /\ batch_log_probabilities[s + 1] # NoLogProbs
  THEN batch_log_probabilities[s + 1][j]
  ELSE NoLogProbs

\* one iteration of the while loop of the response assembly, lines 694-733
Respond ==
  /\ pc = "respond"
  /\ LET r == batch[batch_index]
         next_token == generated[batch_index][step + 1]
         c1 == update(ctx[r], next_token)
         max_length == upper_bounded_default(max_seq_len, c1.max_length)
     IN /\ ctx' = [ctx EXCEPT ![r] = c1]
        /\ applied' = [applied EXCEPT ![r] = Append(@, next_token)]
        /\ IF max_length.raised
           THEN /\ Raise("MaxLengthError")
                /\ UNCHANGED <<res, stopped, step, batch_index>>
           ELSE IF StopCondition(next_token, c1.current_length, max_length.value)
           THEN /\ stopped' = stopped \cup {r}
                /\ Break
                /\ UNCHANGED res
           ELSE /\ res' = [res EXCEPT ![step + 1] =
                             (r :> [token |-> next_token,
                                    log_probs |->
                                      TextResponseLogProbs(step, batch_index)])
                             @@ @]
                /\ UNCHANGED stopped
                /\ IF step + 1 < num_steps
                   THEN /\ step' = step + 1
                        /\ UNCHANGED <<pc, outcome, batch_index>>
                   ELSE NextRow
  /\ UNCHANGED <<huggingface_config, eos_token_id, self_eos_token_id,
                 enable_structured_output, max_seq_len, log_probs_implemented,
                 max_invocations, kv, invocations, released, batch,
                 requested, num_steps, k, untrimmed, bitmask, i, generated,
                 calls, before, handed, fresh, batch_log_probabilities,
                 prompts, curr_step_inputs, batched_kv_cache_inputs,
                 committed>>

\* a release that frees the slot twice
ReleaseCallsTwice(r) == << <<"release", r, 0>>, <<"release", r, 0>> >>

\* "kv_manager.release(context.cache_seq_id)", line 739
ReleaseCalls(r) == << <<"release", r, 0>> >>

\* release(context), lines 737-739
Release(r) ==
  /\ pc = "idle"
  /\ invocations > 0
  /\ r \notin released
  /\ released' = released \cup {r}
  /\ kv' = kv \ {r}
  /\ calls' = calls \o ReleaseCalls(r)
  /\ UNCHANGED <<huggingface_config, eos_token_id, self_eos_token_id,
                 enable_structured_output, max_seq_len, log_probs_implemented,
                 max_invocations, ctx, pc, outcome, invocations,
                 batch, requested, num_steps, k, untrimmed, bitmask, i,
                 generated, batch_index, step, res, before, stopped, applied,
                 handed, fresh, batch_log_probabilities, prompts,
                 curr_step_inputs, batched_kv_cache_inputs, committed>>

Next ==
  \/ \E b \in Batches, n \in 0 .. MaxSteps : NextToken(b, n)
  \/ Admit
  \/ Fetch
  \/ Step
  \/ Commit
  \/ Respond
  \/ \E r \in Reqs : Release(r)

Spec == Init /\ [][Next]_vars

\* ------------------------------------- requests that ask for log probabilities
\* requests without schema and length limit, each with or without log
\* probabilities, on a model that computes them or does not
InitLogProbs ==
  /\ enable_structured_output = FALSE
  /\ max_seq_len = MaxSeqLen
  /\ log_probs_implemented \in BOOLEAN
  /\ max_invocations = 1
  /\ ctx \in {f \in [Reqs -> PlainContexts] : f[2].current_length = 1}
  /\ pc = "idle"
  /\ batch = <<>>
  /\ requested = 0
  /\ num_steps = 0
  /\ InitEos
  /\ InitRest

SpecLogProbs == InitLogProbs /\ [][Next]_vars

\* ------------------------------------------- several calls of next_token
\* two fresh requests that the caller passes to next_token up to
\* MaxInvocations times: the first, with a schema, has room for two more
\* tokens before it reaches the model's max sequence length; the second has
\* reached it and is admitted for one more step
InitSeq ==
  /\ enable_structured_output = TRUE
  /\ max_seq_len = MaxSeqLen
  /\ log_probs_implemented = TRUE
  /\ max_invocations = MaxInvocations
  /\ ctx \in {f \in [Reqs -> Contexts] :
                /\ f[2] \in PlainContexts
                /\ f[1].current_length = MaxSeqLen - 2
                /\ f[1].json_schema # "none"
                /\ f[2].current_length = MaxSeqLen
                /\ \A r \in Reqs : /\ f[r].log_probabilities = 0
                                   /\ f[r].active_length = 1
                                   /\ f[r].max_length = NoMax}
  /\ pc = "idle"
  /\ batch = <<>>
  /\ requested = 0
  /\ num_steps = 0
  /\ InitEos
  /\ InitRest

SpecSeq == InitSeq /\ [][Next]_vars

\* ------------------------------------------------------ __init__ on its own
\* every eos_token_id entry of a huggingface config over the token ids up to
\* MaxEos, and every eos_token_id given to the constructor
InitConstruct ==
  /\ huggingface_config \in
       {NoEos, [kind |-> "other", value |-> {}]}
       \cup {[kind |-> "int", value |-> {t}] : t \in 0 .. MaxEos}
       \cup {[kind |-> "list", value |-> S] : S \in SUBSET (0 .. MaxEos)}
  /\ eos_token_id \in 0 .. MaxEos
  /\ self_eos_token_id = {}
  /\ enable_structured_output = FALSE
  /\ max_seq_len = MaxSeqLen
  /\ log_probs_implemented = TRUE
  /\ max_invocations = 0
  /\ ctx \in {f \in [Reqs -> PlainContexts] :
                \A r \in Reqs : /\ f[r].current_length = 1
                                 /\ f[r].log_probabilities = 0}
  /\ pc = "construct"
  /\ batch = <<>>
  /\ requested = 0
  /\ num_steps = 0
  /\ InitRest

\* the EOS part of __init__, lines 365-385
Construct ==
  /\ pc = "construct"
  /\ self_eos_token_id' = ExpandEos(huggingface_config, eos_token_id)
  /\ pc' = "idle"
  /\ UNCHANGED <<huggingface_config, eos_token_id, enable_structured_output,
                 max_seq_len, log_probs_implemented, max_invocations, ctx, kv,
                 outcome, invocations, released, batch, requested, num_steps,
                 k, untrimmed, bitmask, i, generated, batch_index, step, res,
                 calls, before, stopped, applied, handed, fresh,
                 batch_log_probabilities, prompts, curr_step_inputs,
                 batched_kv_cache_inputs, committed>>

SpecConstruct == InitConstruct /\ [][Construct]_vars

\* ------------------------------------------- calculate_num_steps on its own
\* every combination of the arguments of calculate_num_steps
InitBudget ==
  /\ enable_structured_output = FALSE
  /\ max_seq_len \in 1 .. MaxSeqLen
  /\ log_probs_implemented = TRUE
  /\ max_invocations = 1
  /\ ctx \in {f \in [Reqs -> [current_length : 0 .. MaxCur,
                               active_length : 0 .. MaxCur,
                               max_length : {NoMax},
                               json_schema : {"none"},
                               matcher : {NoMatcher},
                               log_probabilities : {0}]] :
                /\ f[1].active_length <= f[1].current_length
                /\ f[2] = f[1]}
  /\ pc = "budget"
  /\ batch = <<1>>
  /\ requested \in 0 .. (MaxSeqLen + 1)
  /\ num_steps = requested
  /\ InitEos
  /\ InitRest

\* a call of calculate_num_steps(requested, ctx[1]), lines 422-443
BudgetCall ==
  /\ pc = "budget"
  /\ LET n == calculate_num_steps(requested, ctx[1])
     IN IF n.raised
        THEN Raise("CapacityError") /\ UNCHANGED num_steps
        ELSE Return /\ num_steps' = n.value
  /\ UNCHANGED <<huggingface_config, eos_token_id, self_eos_token_id,
                 enable_structured_output, max_seq_len, log_probs_implemented,
                 max_invocations, ctx, kv, invocations,
                 released, batch, requested, k, untrimmed, bitmask, i,
                 generated, batch_index, step, res, calls, before, stopped,
                 applied, handed, fresh, batch_log_probabilities, prompts,
                 curr_step_inputs, batched_kv_cache_inputs, committed>>

SpecBudget == InitBudget /\ [][BudgetCall]_vars


\* ------------------------------------------------------------- properties
Min(S) == CHOOSE x \in S : \A y \in S : x <= y

InBatch(r) == \E j \in Rows : batch[j] = r

RowOf(r) == CHOOSE j \in Rows : batch[j] = r

\* the steps of the response in which request r appears
Appearances(r) == {s \in 1 .. Len(res) : r \in DOMAIN res[s]}

\* the max length of request r when the invocation began: its own, or the
\* model's when it has none
EffMax(r) == IF before[r].max_length = NoMax THEN max_seq_len
             ELSE before[r].max_length

\* the steps whose sampled token is a stop for request r: an EOS token, or a
\* token that takes the context past its max length
Stops(r) ==
  {p \in 1 .. Len(generated[RowOf(r)]) :
     \/ generated[RowOf(r)][p] \in Eos
     \/ before[r].current_length + p > EffMax(r)}

\* the first stop of request r, or one past the generated tokens
FirstStop(r) == IF Stops(r) = {} THEN Len(generated[RowOf(r)]) + 1
                ELSE Min(Stops(r))

Count(op) == Cardinality({p \in 1 .. Len(calls) : calls[p][1] = op})

\* C1: after next_token returns, every request's current_length is its
\* current_length before the call, plus the number of steps of the response
\* that contain the request, plus one if a sampled token was a stop for it
\* (EOS or overrun); a request outside the batch keeps its current_length.
InvC1 ==
  outcome = "returned" =>
    \A r \in Reqs :
      ctx[r].current_length =
        before[r].current_length
        + (IF InBatch(r)
           THEN Cardinality(Appearances(r)) + (IF Stops(r) # {} THEN 1 ELSE 0)
           ELSE 0)

WitC1 ==
  /\ outcome = "returned"
  /\ Len(batch) = 2
  /\ \E r \in Reqs : InBatch(r) /\ Stops(r) # {} /\ Appearances(r) # {}
  /\ \E r \in Reqs : InBatch(r) /\ Stops(r) = {} /\ Appearances(r) # {}

\* C2: the list next_token returns has one mapping per effective step, and a
\* request absent from the mapping of a step is absent from the mapping of
\* every later step: the steps of a request are a prefix of the steps.
InvC2 ==
  outcome = "returned" =>
    /\ Len(res) = num_steps
    /\ \A r \in Reqs :
         \A s \in 1 .. Len(res) :
           s \in Appearances(r) => \A t \in 1 .. s : t \in Appearances(r)

WitC2 ==
  /\ outcome = "returned"
  /\ Len(res) = 2
  /\ \E r \in Reqs : InBatch(r) /\ Appearances(r) = {1}
                     /\ generated[RowOf(r)][2] \notin Eos

\* C3: the response assembly consumes the tokens of a row in step order up to
\* and including the first stop (EOS, or current_length past the max length):
\* exactly these tokens are given to context.update, every token before the
\* stop is the response of its own step, and the stop and the steps after it
\* hold no response of the request. A request at its max length that samples
\* a token other than EOS gets no response and ends one past its max length.
InvC3 ==
  outcome = "returned" =>
    \A r \in Reqs :
      InBatch(r) =>
        LET g == generated[RowOf(r)]
            m == FirstStop(r)
        IN /\ Len(g) = num_steps
           /\ applied[r] = SubSeq(g, 1, IF m <= Len(g) THEN m ELSE Len(g))
           /\ ctx[r].current_length = before[r].current_length + Len(applied[r])
           /\ \A s \in 1 .. Len(res) :
                IF s < m THEN r \in DOMAIN res[s] /\ res[s][r].token = g[s]
                ELSE r \notin DOMAIN res[s]
           /\ (Len(g) >= 1 /\ before[r].current_length = EffMax(r)
                 /\ g[1] \notin Eos)
                => /\ r \notin DOMAIN res[1]
                   /\ ctx[r].current_length = EffMax(r) + 1

WitC3 ==
  /\ outcome = "returned"
  /\ num_steps = 2
  /\ \E r \in Reqs :
       /\ InBatch(r)
       /\ before[r].current_length = EffMax(r)
       /\ generated[RowOf(r)][1] \notin Eos
       /\ ctx[r].current_length = EffMax(r) + 1
  /\ \E r \in Reqs : InBatch(r) /\ FirstStop(r) = 2

\* C4: kv_manager.step is called once per invocation that returns, also with
\* zero steps; no model execution follows it, so it is never called between
\* two steps of the loop; and no context is updated before it.
InvC4 ==
  /\ Count("step") <= 1
  /\ outcome = "returned" => Count("step") = 1 /\ Count("execute") = num_steps
  /\ \A p, q \in 1 .. Len(calls) :
       calls[p][1] = "execute" /\ calls[q][1] = "step" => p < q
  /\ Count("step") = 0 =>
       \A r \in Reqs : applied[r] = <<>> /\ ctx[r].current_length
                                              = before[r].current_length

WitC4 ==
  /\ outcome = "returned"
  /\ Count("execute") = 2
  /\ Count("step") = 1
  /\ \E r \in Reqs : Len(applied[r]) = 2

\* the calls the cache manager sees, with the sequence id they name
KvOps == {"external_claim", "fetch", "increment_cache_lengths", "step",
          "release"}

KvCalls ==
  LET seen == SelectSeq(calls, LAMBDA e : e[1] \in KvOps)
  IN [p \in 1 .. Len(seen) |-> <<seen[p][1], seen[p][2]>>]

\* C5: a single new request, admitted by one next_token call of N >= 1 steps
\* that samples no EOS token, then released: the cache manager sees one
\* external_claim, one fetch, N-1 increment_cache_lengths, one step and one
\* release, in this order, and no other claim, fetch, step or release.
InvC5 ==
  (/\ outcome = "returned"
   /\ Len(batch) = 1
   /\ num_steps >= 1
   /\ released = {batch[1]}
   /\ \A p \in 1 .. Len(generated[1]) : generated[1][p] \notin Eos)
  => KvCalls = << <<"external_claim", batch[1]>>, <<"fetch", 0>> >>
               \o [p \in 1 .. (num_steps - 1) |-> <<"increment_cache_lengths", 0>>]
               \o << <<"step", 0>>, <<"release", batch[1]>> >>

WitC5 ==
  /\ outcome = "returned"
  /\ Len(batch) = 1
  /\ num_steps = 2
  /\ released = {batch[1]}
  /\ \A p \in 1 .. Len(generated[1]) : generated[1][p] \notin Eos
  /\ Count("increment_cache_lengths") = 1

\* what calculate_num_steps is to find available for request r at admission
Avail0(r) == max_seq_len - (before[r].current_length - before[r].active_length)

\* C6: calculate_num_steps raises exactly when
\* available = max_seq_len - (current_length - active_length) is <= 0, and
\* otherwise returns min(requested, available).
InvC6 ==
  pc = "idle" =>
    /\ outcome = "CapacityError" <=> Avail0(1) <= 0
    /\ Avail0(1) > 0 =>
         /\ outcome = "returned"
         /\ num_steps = Min({requested, Avail0(1)})

WitC6 ==
  /\ pc = "idle"
  /\ outcome = "returned"
  /\ Avail0(1) < requested
  /\ num_steps = Avail0(1)
  /\ ctx[1].active_length < ctx[1].current_length

\* admission of the whole batch succeeded
Admitted == pc \in {"fetch", "loop", "commit", "respond"} \/ outcome = "returned"

\* C7: once a batch is admitted the effective step count is at most the
\* requested steps and at most the available budget of every context of the
\* batch, it never grows while contexts are folded in, and it is the length of
\* the output; requested 3 with budgets 3 and 1 gives 1 step and 1 mapping.
StepsC7 ==
  /\ pc = "admit" =>
       /\ num_steps <= requested
       /\ \A j \in 1 .. (k - 1) : num_steps <= Avail0(batch[j])
  /\ Admitted =>
       /\ num_steps <= requested
       /\ \A r \in Reqs : InBatch(r) => num_steps <= Avail0(r)
       /\ (requested = 3 /\ {Avail0(r) : r \in {q \in Reqs : InBatch(q)}} = {1, 3})
            => num_steps = 1
  /\ outcome = "returned" => Len(res) = num_steps

PropC7 == [] StepsC7 /\ [][pc = "admit" => num_steps' <= num_steps]_vars

WitC7 ==
  /\ outcome = "returned"
  /\ requested = 3
  /\ Len(batch) = 2
  /\ {Avail0(1), Avail0(2)} = {1, 3}
  /\ Len(res) = 1

\* the requested max length capped at the model's max sequence length
Capped(max_length) ==
  IF max_length = NoMax THEN max_seq_len ELSE Min({max_length, max_seq_len})

\* C8 as claimed: the effective max length of the termination policy is the
\* requested max length capped at max_seq_len (max_seq_len when there is
\* none), and a requested max length above max_seq_len does not make
\* next_token fail.
CexC8 ==
  /\ outcome # "MaxLengthError"
  /\ pc = "respond" =>
       LET m == upper_bounded_default(max_seq_len,
                                      ctx[batch[batch_index]].max_length)
       IN ~m.raised /\ m.value = Capped(ctx[batch[batch_index]].max_length)

\* C8, amended: the effective max length is the requested max length when
\* that is at most max_seq_len, and max_seq_len when there is none; a
\* requested max length above max_seq_len is rejected: next_token raises at
\* the first token of that request in the response assembly, after the commit
\* and after the token was given to context.update, and returns only if no
\* request of the batch has such a max length or no step was executed.
ThmC8 ==
  /\ pc = "respond" =>
       LET d == ctx[batch[batch_index]].max_length
           m == upper_bounded_default(max_seq_len, d)
       IN /\ m.raised <=> d > max_seq_len
          /\ ~m.raised => m.value = Capped(d)
  /\ outcome = "MaxLengthError" =>
       /\ Count("step") = 1
       /\ \E r \in Reqs : /\ InBatch(r)
                          /\ before[r].max_length > max_seq_len
                          /\ Len(applied[r]) = 1
                          /\ Appearances(r) = {}
  /\ (outcome = "returned" /\ num_steps >= 1) =>
       \A r \in Reqs : InBatch(r) => before[r].max_length <= max_seq_len

WitC8 ==
  /\ outcome = "MaxLengthError"
  /\ Len(batch) = 2
  /\ batch_index = 2
  /\ before[batch[2]].max_length = max_seq_len + 1
  /\ ctx[batch[2]].current_length = before[batch[2]].current_length + 1

\* C9: when admission raises a capacity error or the model returns no
\* next-token logits, the invocation ends without kv_manager.step, without
\* any context.update (no token history or current_length changes) and
\* without a response list; a batch with a context that has nothing
\* available is never admitted.
InvC9 ==
  /\ outcome \in {"CapacityError", "ModelContractViolation"} =>
       /\ Count("step") = 0
       /\ res = <<>>
       /\ \A r \in Reqs : /\ applied[r] = <<>>
                          /\ ctx[r].current_length = before[r].current_length
  /\ Admitted => \A r \in Reqs : InBatch(r) => Avail0(r) > 0

WitC9 ==
  /\ outcome = "ModelContractViolation"
  /\ Len(batch) = 2
  /\ i = 1
  /\ Count("increment_cache_lengths") = 1

\* a capacity error at the second context of a batch
CapacityAtSecond ==
  /\ outcome = "CapacityError"
  /\ k = 2
  /\ Avail0(batch[1]) > 0
  /\ Avail0(batch[2]) <= 0

\* C10 as claimed: at every step the mask handed to the sampler for a request
\* with a matcher is the mask the matcher fills after consuming the tokens
\* sampled at the earlier steps of the invocation.
CexC10 ==
  \A s \in 1 .. Len(handed) :
    \A j \in Rows :
      fresh[batch[j]] # NoMatcher =>
        /\ handed[s].mask.kind = "bool"
        /\ handed[s].mask.rows[j] = handed[s].matcher_rows[j]

\* C11 as claimed: with structured output enabled, the unpacked mask of a
\* row whose request has no matcher admits every token id of the vocabulary.
CexC11 ==
  \A s \in 1 .. Len(handed) :
    \A j \in Rows :
      (enable_structured_output /\ fresh[batch[j]] = NoMatcher) =>
        /\ handed[s].mask.kind = "bool"
        /\ handed[s].mask.rows[j] = Vocab

\* C12: when the model does not implement log probabilities and a request of
\* the batch asks for them, the invocation does not end with the
\* NotImplementedError; a returned invocation has executed every effective
\* step and committed once, has recorded one empty log-probability entry per
\* step, and emits for every request the tokens before its first stop, each
\* with log_probs None.
InvC12 ==
  (invocations > 0 /\ ~log_probs_implemented /\ compute_log_probabilities) =>
    /\ outcome # "NotImplementedError"
    /\ outcome = "returned" =>
         /\ Count("execute") = num_steps
         /\ Count("step") = 1
         /\ batch_log_probabilities = [s \in 1 .. num_steps |-> NoLogProbs]
         /\ \A r \in Reqs :
              InBatch(r) =>
                /\ Appearances(r) = 1 .. (FirstStop(r) - 1)
                /\ \A s \in Appearances(r) :
                     /\ res[s][r].token = generated[RowOf(r)][s]
                     /\ res[s][r].log_probs = NoLogProbs

WitC12 ==
  /\ outcome = "returned"
  /\ ~log_probs_implemented
  /\ Len(batch) = 2
  /\ before[batch[1]].log_probabilities > 0
  /\ before[batch[2]].log_probabilities = 0
  /\ num_steps = 2
  /\ Appearances(batch[1]) = {1, 2}
  /\ Appearances(batch[2]) = {1}

\* C13: the cache manager's release has been called exactly once, with the
\* request's cache_seq_id, for every request release(context) was called for,
\* and never for any other request: no step of next_token, in a normal or an
\* aborted invocation, adds a call of release.
InvC13 ==
  /\ Count("release") = Cardinality(released)
  /\ \A r \in Reqs :
       Cardinality({p \in 1 .. Len(calls) : calls[p] = <<"release", r, 0>>})
         = IF r \in released THEN 1 ELSE 0
  /\ pc # "idle" => Count("release") = 0

WitC13 ==
  /\ outcome = "returned"
  /\ Len(batch) = 2
  /\ stopped = {batch[1]}
  /\ released = {batch[1]}
  /\ calls[Len(calls)] = <<"release", batch[1], 0>>
  /\ batch[2] \in kv

\* C14: when structured output is not enabled and a context of the batch
\* carries a json_schema without a matcher, the invocation does not get past
\* admission: it ends with the configuration error unless an earlier row has
\* already ended it, fetch, execute and the cache manager's step are not
\* called, and every context is as it was before the invocation.
InvC14 ==
  /\ (/\ invocations > 0
      /\ ~enable_structured_output
      /\ \E j \in Rows : /\ before[batch[j]].json_schema # "none"
                         /\ before[batch[j]].matcher = NoMatcher) =>
       /\ pc \in {"admit", "idle"}
       /\ outcome \in {"running", "ConfigurationError", "CapacityError"}
       /\ pc = "idle" => outcome # "running"
       /\ (pc = "idle" /\ before[batch[1]].json_schema # "none") =>
            outcome = "ConfigurationError"
  /\ outcome = "ConfigurationError" =>
       /\ Count("fetch") = 0
       /\ Count("execute") = 0
       /\ Count("step") = 0
       /\ Count("compile_json_schema") = 0
       /\ ctx = before
       /\ \A r \in Reqs : applied[r] = <<>>
       /\ ~enable_structured_output
       /\ before[batch[k]].json_schema # "none"

WitC14 ==
  /\ outcome = "ConfigurationError"
  /\ Len(batch) = 2
  /\ k = 2
  /\ batch[1] \in kv
  /\ Count("external_claim") = 1

\* positions of the calls of op for request r in the call log
Positions(op, r) ==
  {p \in 1 .. Len(calls) : calls[p][1] = op /\ calls[p][2] = r}

Last(S) == IF S = {} THEN 0 ELSE CHOOSE x \in S : \A y \in S : y <= x

\* the calls of op of the invocation that runs or ran last
Current(op) ==
  LET start == Last(Positions("next_token", 0))
  IN {p \in (start + 1) .. Len(calls) : calls[p][1] = op}

\* C15: over any sequence of invocations and releases, two claims of the same
\* request have a release of it between them; the manager holds a request
\* exactly when its last claim is later than its last release; an invocation
\* that got past admission has called fetch exactly once, after the claim of
\* every request of its batch, and an invocation still in admission or
\* aborted there has not called fetch.
InvC15 ==
  LET fetches == Current("fetch")
      fetch == Last(fetches)
  IN /\ \A r \in Reqs :
          LET claims == Positions("external_claim", r)
              claim == Last(claims)
              releases == Positions("release", r)
          IN /\ \A p \in claims, q \in claims :
                  p < q => \E x \in releases : p < x /\ x < q
             /\ r \in kv <=> claim > Last(releases)
             /\ (fetch > 0 /\ InBatch(r)) =>
                  /\ claim > 0
                  /\ claim < fetch
                  /\ \A x \in releases : x < claim \/ x > fetch
     /\ Cardinality(fetches) =
          IF pc \in {"loop", "commit", "respond"}
             \/ outcome \in {"returned", "ModelContractViolation",
                              "BitmaskError", "MaxLengthError"}
          THEN 1 ELSE 0

\* the second invocation fetches for a request the first one claimed
WitC15 ==
  /\ invocations = 2
  /\ outcome = "returned"
  /\ InBatch(1)
  /\ Cardinality(Positions("external_claim", 1)) = 1
  /\ released = {}
  /\ Count("fetch") = 2
  /\ Count("execute") >= 2

\* C16: once fetch has returned, every request of the batch whose prompt
\* fetch shortened from its active_length L before the call to T < L has had
\* bump_token_indices called exactly once, with start_idx = L - T, and its
\* active_length is T until its first token is applied; a request whose
\* prompt was not shortened, and a request outside the batch, has had no
\* call; before fetch there is no call at all.
InvC16 ==
  \A r \in Reqs :
    LET bumps == Positions("bump_token_indices", r)
        L == before[r].active_length
        T == prompts[r]
    IN IF InBatch(r) /\ Count("fetch") = 1
       THEN /\ untrimmed[r] = L
            /\ IF T < L
               THEN /\ Cardinality(bumps) = 1
                    /\ \A p \in bumps :
                         /\ calls[p][3] = L - T
                         /\ p > Last(Positions("fetch", 0))
                    /\ pc \in {"loop", "commit"} => ctx[r].active_length = T
               ELSE /\ bumps = {}
                    /\ pc \in {"loop", "commit"} => ctx[r].active_length = L
       ELSE bumps = {}

WitC16 ==
  /\ pc = "loop"
  /\ Len(batch) = 2
  /\ before[batch[1]].active_length = 1
  /\ prompts[batch[1]] = 1
  /\ before[batch[2]].active_length = 3
  /\ prompts[batch[2]] = 1
  /\ Count("bump_token_indices") = 1
  /\ calls[Len(calls)] = <<"bump_token_indices", batch[2], 2>>

\* the calls the multistep loop has made, in order
LoopCalls ==
  SelectSeq(calls, LAMBDA e : e[1] \in {"execute", "sample",
                                        "increment_cache_lengths",
                                        "prepare_next_token_inputs"})

\* execute, sample, increment, prepare for every step but the last, and
\* execute, sample for the last of n steps
ExpectedLoopCalls(n) ==
  [p \in 1 .. (IF n = 0 THEN 0 ELSE 4 * n - 2) |->
     << <<"execute", "sample", "increment_cache_lengths",
          "prepare_next_token_inputs">>[((p - 1) % 4) + 1],
        0, (p - 1) \div 4 >>]

\* C17: the calls of the loop are at every moment a prefix of execute(0),
\* sample(0), increment_cache_lengths, prepare_next_token_inputs, execute(1),
\* ... ending with execute(N-1), sample(N-1), and are all of it once
\* next_token has returned, so execute is called N times and each of
\* increment_cache_lengths and prepare_next_token_inputs max(N-1, 0) times;
\* the first execute gets the initial inputs and execute(s), s > 0, gets the
\* inputs prepared from the tokens sampled at step s-1 and cache inputs
\* incremented s times.
InvC17 ==
  /\ Len(LoopCalls) <= Len(ExpectedLoopCalls(num_steps))
  /\ LoopCalls = SubSeq(ExpectedLoopCalls(num_steps), 1, Len(LoopCalls))
  /\ outcome = "returned" =>
       /\ LoopCalls = ExpectedLoopCalls(num_steps)
       /\ Count("execute") = num_steps
       /\ Count("increment_cache_lengths") =
            (IF num_steps > 0 THEN num_steps - 1 ELSE 0)
       /\ Count("prepare_next_token_inputs") =
            (IF num_steps > 0 THEN num_steps - 1 ELSE 0)
  /\ \A s \in 1 .. Len(handed) :
       /\ handed[s].kv_inputs = s - 1
       /\ handed[s].inputs =
            IF s = 1
            THEN [from |-> "prepare_initial_token_inputs", tokens |-> <<>>]
            ELSE [from |-> "prepare_next_token_inputs",
                  tokens |-> [j \in Rows |-> generated[j][s - 1]]]

WitC17 ==
  /\ outcome = "returned"
  /\ num_steps = 3
  /\ Len(batch) = 2
  /\ Len(handed) = 3
  /\ Count("increment_cache_lengths") = 2
  /\ generated[1] # generated[2]

\* the admission loop has gone through the row of request r
Passed(r) ==
  /\ invocations > 0
  /\ InBatch(r)
  /\ \/ Admitted
     \/ pc = "admit" /\ RowOf(r) < k
     \/ pc = "idle" /\ outcome # "ConfigurationError" /\ RowOf(r) <= k

\* C18: with structured output enabled, a request whose json_schema does not
\* compile never ends the invocation with a configuration error; once the
\* admission loop has gone through its row, compilation was attempted once,
\* its schema is cleared, it has no matcher, its row of the bitmask is the
\* row of a request without schema, and it is claimed; once the batch is
\* admitted the step count respects its budget and fetch has been called.
InvC18 ==
  \A r \in Reqs :
    (enable_structured_output /\ before[r].json_schema = "bad") =>
      /\ outcome # "ConfigurationError"
      /\ Passed(r) =>
           /\ Cardinality(Positions("compile_json_schema", r)) = 1
           /\ ctx[r].json_schema = "none"
           /\ ctx[r].matcher = NoMatcher
           /\ fresh[r] = NoMatcher
           /\ bitmask.kind = "packed" => bitmask.rows[RowOf(r)] = OnesRow
           /\ Len(handed) >= 1 =>
                handed[1].mask.rows[RowOf(r)] = UnpackRow(OnesRow)
           /\ r \in kv \/ r \in released
      /\ (Admitted /\ InBatch(r)) =>
           /\ num_steps <= Avail0(r)
           /\ pc # "fetch" => Count("fetch") = 1

WitC18 ==
  /\ outcome = "returned"
  /\ enable_structured_output
  /\ batch = <<2, 1>>
  /\ before[1].json_schema = "bad"
  /\ num_steps >= 1
  /\ Appearances(1) # {}
  /\ Appearances(2) # {}

\* C19: over any sequence of invocations and releases, compile_json_schema
\* has been called at most once for a request, and each call was made in the
\* admission loop, before the fetch and the loop of its invocation; a request
\* that was compiled has either a matcher and its schema, or no matcher and
\* no schema; a request that was not compiled has no matcher; request 2,
\* which has no schema, was never compiled.
InvC19 ==
  /\ \A r \in Reqs :
       LET compiles == Positions("compile_json_schema", r)
       IN /\ Cardinality(compiles) <= 1
          /\ compiles = {} => ctx[r].matcher = NoMatcher
          /\ compiles # {} =>
               \/ ctx[r].json_schema = "good" /\ ctx[r].matcher # NoMatcher
               \/ ctx[r].json_schema = "none" /\ ctx[r].matcher = NoMatcher
          /\ \A p \in compiles :
               \A q \in Last({m \in Positions("next_token", 0) : m < p}) .. p :
                 calls[q][1] \in {"next_token", "compile_json_schema",
                                  "external_claim"}
  /\ Positions("compile_json_schema", 2) = {}

\* the second invocation admits a request whose matcher the first one built
\* and advanced
WitC19 ==
  /\ invocations = 2
  /\ outcome = "returned"
  /\ batch = <<1>>
  /\ Count("fetch") = 2
  /\ Cardinality(Positions("compile_json_schema", 1)) = 1
  /\ ctx[1].matcher # NoMatcher
  /\ ctx[1].current_length = before[1].current_length + 1
  /\ before[1].matcher # NoMatcher

\* C20 as claimed: after next_token returns, the number of new tokens given
\* to the cache manager's step for a request of the batch is the number of
\* tokens applied to its context in that invocation.
CexC20 ==
  outcome = "returned" =>
    \A r \in Reqs :
      InBatch(r) => Len(committed[r]) = Len(applied[r])

\* C21 as claimed: for every request of an admitted batch, the tokens
\* processed into the KV cache so far in the invocation, its cached and
\* active tokens at the first execute and one more at every later execute,
\* do not exceed the model's max sequence length. Stated here for the
\* requests whose tokens fit the max sequence length when the call begins.
CexC21 ==
  (Admitted /\ Count("execute") >= 1) =>
    \A r \in Reqs :
      (InBatch(r) /\ before[r].current_length <= max_seq_len) =>
        (before[r].current_length - before[r].active_length)
          + before[r].active_length + (Count("execute") - 1) <= max_seq_len

\* C22: when an invocation has ended with a capacity error at row k, every
\* request of rows 1..k, the failing one included, that the manager did not
\* hold when the invocation began has been claimed once by it, and is held
\* unless the caller has released it since; no request of a later row has been
\* claimed by it; a request held before was not claimed again; and the call
\* log holds no release but those of the caller.
InvC22 ==
  outcome = "CapacityError" =>
    LET start == Last(Positions("next_token", 0))
    IN /\ Count("release") = Cardinality(released)
       /\ \A j \in Rows :
            LET r == batch[j]
                claims == Positions("external_claim", r)
                releases == Positions("release", r)
                held == Last({p \in claims : p < start})
                          > Last({p \in releases : p < start})
                now == {p \in claims : p > start}
            IN /\ Cardinality(now) = IF j <= k /\ ~held THEN 1 ELSE 0
               /\ {p \in releases : p > start} = {} =>
                    (r \in kv <=> (j <= k \/ held))

\* the second invocation fails at its second row: the first row's request is
\* still held from the first invocation, the failing request was released
\* in between and is claimed again now
WitC22 ==
  /\ outcome = "CapacityError"
  /\ invocations = 2
  /\ batch = <<1, 2>>
  /\ k = 2
  /\ released = {2}
  /\ kv = {1, 2}
  /\ Cardinality(Positions("external_claim", 2)) = 2
  /\ Last(Positions("external_claim", 2)) = Len(calls)
  /\ Cardinality(Positions("external_claim", 1)) = 1

\* C23 as claimed: after construction the EOS set is the list of the
\* huggingface config when that is a list holding the eos_token_id given to
\* the constructor, and in every other case, an int entry that differs from
\* it included, the set of that eos_token_id alone.
CexC23 ==
  pc = "idle" =>
    self_eos_token_id =
      IF huggingface_config.kind = "list"
         /\ eos_token_id \in huggingface_config.value
      THEN huggingface_config.value
      ELSE {eos_token_id}

====
